---- MODULE Spec2Model ----
(***************************************************************************)
(* Model of the daily sales-reconciliation workflow of                     *)
(* src/src/lambda_function.py (lambda_handler and the steps it calls).     *)
(*                                                                         *)
(* One behaviour is one logical run of lambda_handler on the durable       *)
(* runtime: every context.step / context.wait / callback of the handler   *)
(* and every batch of its context.map is an action, and the environment    *)
(* (the approver, the deadline, the external ledger API, S3, interruptions *)
(* of the invocation) supplies the nondeterminism.                         *)
(***************************************************************************)
EXTENDS Integers, Sequences, FiniteSets, TLC

(***************************************************************************)
(* Program constants.                                                      *)
(***************************************************************************)
HIGH_VALUE_THRESHOLD == 1000000

API_RATE_LIMIT_WAIT_SECONDS == 10

\* retry_strategy: 'should_retry': n < 5
RETRY_LIMIT == 5

\* retry_strategy: 'delay': min(5 * 2**(n-1), 60)
BACKOFF_BASE == 5

BACKOFF_CAP == 60

(***************************************************************************)
(* Bounds of the model.  BATCH_SIZE (100 in the source) and API_BATCH_SIZE *)
(* (1000 in the source) are scaled down so that inputs of a few records    *)
(* already span several batches; the batching arithmetic is the source's.  *)
(***************************************************************************)
BATCH_SIZE == 2

API_BATCH_SIZE == 2

MaxRecords == 3

\* max_concurrency of the map (10 in the source), scaled like BATCH_SIZE
MAX_CONCURRENCY == 2

\* re-executions of batches the runtime makes in one run
MaxReexecutions == 1

\* every amount from 1 to MaxAmount is given to process_record
MaxAmount == 120

\* records of the inputs given to the Enricher alone
MaxEnrichRecords == 5

\* ids that occur in the day's export
Ids == {"00001", "00002", "00003"}

\* ids an approver may name; "99999" is the id of no record
PayloadIds == Ids \cup {"99999"}

\* amounts around the threshold: one below it, the threshold itself
Amounts == {HIGH_VALUE_THRESHOLD - 1, HIGH_VALUE_THRESHOLD}

Min(a, b) == IF a < b THEN a ELSE b

RECURSIVE Pow2(_)
Pow2(k) == IF k = 0 THEN 1 ELSE 2 * Pow2(k - 1)

\* the rows of sales/{date}.csv as fetch_sales_data returns them
SalesRecord ==
    [id : Ids, customer_name : {"Sato"}, product : {"laptop"},
     amount : Amounts, quantity : {1}, region : {"Tokyo"},
     category : {"electronics"}, timestamp : {"2026-02-20T09:00:00"}]

\* the ids of the rows of one day's export, unique within the day
DayIds == <<"00001", "00002", "00003", "00004", "00005", "00006", "00007",
            "00008">>

\* the place of an id among the ids
IdIndex(id) == CHOOSE j \in DOMAIN DayIds : DayIds[j] = id

\* the ids of the rows are named in the order of their first appearance:
\* the first row has the first id, and a row has an id of an earlier row or
\* the next unused one.  Every other export is one of these with its ids
\* renamed, and the approver's payloads range over all the ids.
FirstUseOrder(rows) ==
    \A k \in 1..Len(rows) :
       \/ IdIndex(rows[k].id) = 1
       \/ \E j \in 1..(k - 1) : IdIndex(rows[j].id) >= IdIndex(rows[k].id) - 1

RecordSeqs ==
    {rows \in UNION {[1..n -> SalesRecord] : n \in 0..MaxRecords} :
        FirstUseOrder(rows)}

\* the object sales/{date}.csv: its rows, or no such key
NoSuchKey == [exists |-> FALSE, rows |-> << >>]

Sources == [exists : {TRUE}, rows : RecordSeqs] \cup {NoSuchKey}

(***************************************************************************)
(* Enricher: process_record, process_batch, the batches and their merge.   *)
(***************************************************************************)
(***************************************************************************)
(* Python's float arithmetic, as far as process_record uses it.  The       *)
(* product of an int and a 53-bit significand is computed exactly on       *)
(* little-endian sequences of 10-bit limbs, then rounded as a double is.   *)
(***************************************************************************)
LIMB_BITS == 10

LIMB == Pow2(LIMB_BITS)

RECURSIVE ToLimbs(_)
ToLimbs(n) == IF n = 0 THEN << >> ELSE <<n % LIMB>> \o ToLimbs(n \div LIMB)

RECURSIVE Column(_, _, _, _)
\* x[1] * y[c] + x[2] * y[c - 1] + ... + x[k] * y[c - k + 1]
Column(x, y, c, k) ==
    IF k = 0 THEN 0
    ELSE Column(x, y, c, k - 1)
         + (IF c - k + 1 \in DOMAIN y THEN x[k] * y[c - k + 1] ELSE 0)

RECURSIVE Carry(_, _)
Carry(columns, carry) ==
    IF columns = << >>
    THEN IF carry = 0 THEN << >> ELSE <<carry>>
    ELSE LET t == columns[1] + carry
         IN <<t % LIMB>> \o Carry(Tail(columns), t \div LIMB)

MulLimbs(x, y) ==
    Carry([c \in 1..(Len(x) + Len(y)) |-> Column(x, y, c, Len(x))], 0)

\* the bits of a number, least significant first, without leading zeros
BitsOf(limbs) ==
    LET bit(k) == (limbs[((k - 1) \div LIMB_BITS) + 1]
                      \div Pow2((k - 1) % LIMB_BITS)) % 2
        ones == {k \in 1..(LIMB_BITS * Len(limbs)) : bit(k) = 1}
        n == IF ones = {} THEN 0 ELSE CHOOSE k \in ones : \A j \in ones : j <= k
    IN [k \in 1..n |-> bit(k)]

RECURSIVE FromBits(_)
FromBits(bits) ==
    IF bits = << >> THEN 0 ELSE bits[1] + 2 * FromBits(Tail(bits))

\* bits + 1
Increment(bits) ==
    LET zeros == {k \in 1..Len(bits) : bits[k] = 0}
        z == IF zeros = {} THEN Len(bits) + 1
             ELSE CHOOSE k \in zeros : \A j \in zeros : k <= j
    IN [k \in 1..(IF zeros = {} THEN Len(bits) + 1 ELSE Len(bits)) |->
          IF k < z THEN 0 ELSE IF k = z THEN 1 ELSE bits[k]]

RECURSIVE HexLimbs(_, _)
\* the limbs of a number written as hexadecimal digits, most significant
\* first: Horner's rule, acc * 16 + digit
HexLimbs(digits, acc) ==
    IF digits = << >> THEN acc
    ELSE HexLimbs(Tail(digits),
                  Carry([c \in 1..(Len(acc) + 1) |->
                            (IF c \in DOMAIN acc THEN acc[c] * 16 ELSE 0)
                            + (IF c = 1 THEN digits[1] ELSE 0)], 0))

\* the double nearest to 0.1: 0x1.999999999999ap-4 = 0x1999999999999a * 2^-56
DOUBLE_0_1 ==
    [sig |-> HexLimbs(<<1, 9, 9, 9, 9, 9, 9, 9, 9, 9, 9, 9, 9, 10>>, << >>),
     exp |-> 56]

\* the double nearest to 1.1: 0x1.199999999999ap+0 = 0x1199999999999a * 2^-52
DOUBLE_1_1 ==
    [sig |-> HexLimbs(<<1, 1, 9, 9, 9, 9, 9, 9, 9, 9, 9, 9, 9, 10>>, << >>),
     exp |-> 52]

\* the exact product bits * 2^-exp rounded to a double (53 significant
\* bits, round half to even): the bits q and the shift s of q * 2^(s - exp)
RoundToDouble(bits) ==
    LET n == Len(bits)
        s == n - 53
    IN IF s <= 0 THEN [q |-> bits, s |-> 0]
       ELSE LET q == SubSeq(bits, s + 1, n)
                half == bits[s] = 1
                sticky == \E k \in 1..(s - 1) : bits[k] = 1
                up == half /\ (sticky \/ q[1] = 1)
            IN [q |-> IF up THEN Increment(q) ELSE q, s |-> s]

\* mutant: round() in the place of int()
IntOfProduct_Rounds(n, d) ==
    LET r == RoundToDouble(BitsOf(MulLimbs(ToLimbs(n), d.sig)))
        shift == d.exp - r.s
    IN IF shift > Len(r.q) THEN 0
       ELSE FromBits(SubSeq(r.q, shift + 1, Len(r.q)))
            + (IF shift >= 1 /\ r.q[shift] = 1 THEN 1 ELSE 0)

\* int(n * d) for an int n >= 0 and a double d: float(n) is exact, the
\* product is rounded once, int() truncates
IntOfProduct(n, d) ==
    LET r == RoundToDouble(BitsOf(MulLimbs(ToLimbs(n), d.sig)))
        shift == d.exp - r.s
    IN IF shift >= Len(r.q) THEN 0
       ELSE FromBits(SubSeq(r.q, shift + 1, Len(r.q)))

\* amounts of the records given to process_record alone: small ones, where
\* the rounding of the product decides the result, and fixture-sized ones
RecordAmounts ==
    (1..MaxAmount) \cup {HIGH_VALUE_THRESHOLD - 1, HIGH_VALUE_THRESHOLD,
                          HIGH_VALUE_THRESHOLD + 1, 2500000, 4999999, 5000000}

\* int(amount * 0.1) and int(amount * 1.1), computed once per amount
int_amount_times_0_1 ==
    [a \in Amounts \cup RecordAmounts |-> IntOfProduct(a, DOUBLE_0_1)]

int_amount_times_1_1 ==
    [a \in Amounts \cup RecordAmounts |-> IntOfProduct(a, DOUBLE_1_1)]

\* {**record, 'tax': int(record['amount'] * 0.1),
\*            'total': int(record['amount'] * 1.1), 'processed': True}
process_record(record) ==
    [id |-> record.id,
     customer_name |-> record.customer_name,
     product |-> record.product,
     amount |-> record.amount,
     quantity |-> record.quantity,
     region |-> record.region,
     category |-> record.category,
     timestamp |-> record.timestamp,
     tax |-> int_amount_times_0_1[record.amount],
     total |-> int_amount_times_1_1[record.amount],
     processed |-> TRUE]

process_batch(batch) == [k \in 1..Len(batch) |-> process_record(batch[k])]

\* seq[i:i + size] for a 0-based offset i
Slice(seq, i, size) == SubSeq(seq, i + 1, Min(i + size, Len(seq)))

\* range(0, n, size)
Offsets(n, size) == {i \in 0..(n - 1) : i % size = 0}

\* mutant: len(records) // BATCH_SIZE batches, the remainder is dropped
Batches_DropsRemainder(recs) ==
    [b \in 1..(Len(recs) \div BATCH_SIZE) |->
        Slice(recs, (b - 1) * BATCH_SIZE, BATCH_SIZE)]

\* [records[i:i + BATCH_SIZE] for i in range(0, len(records), BATCH_SIZE)]
Batches(recs) ==
    [b \in 1..Cardinality(Offsets(Len(recs), BATCH_SIZE)) |->
        Slice(recs, (b - 1) * BATCH_SIZE, BATCH_SIZE)]

RECURSIVE Extend(_, _)
\* processed = []; for batch_result in results: processed.extend(batch_result)
Extend(results, k) ==
    IF k = 0 THEN << >> ELSE Extend(results, k - 1) \o results[k]

MapProcessBatches(recs) ==
    LET batches == Batches(recs)
        results == [b \in 1..Len(batches) |-> process_batch(batches[b])]
    IN Extend(results, Len(results))

(***************************************************************************)
(* ApprovalGate: extraction, the decision payload, reconciliation.         *)
(***************************************************************************)
IdsOf(recs) == [k \in 1..Len(recs) |-> recs[k].id]

\* [r['id'] for r in records if r['amount'] >= threshold]
extract_high_value_ids(recs, threshold) ==
    IdsOf(SelectSeq(recs, LAMBDA r : r.amount >= threshold))

\* What callback.result() can hand back: None, the empty string, the text
\* of an object without the key, of an object with an approved_ids list,
\* or text that is no JSON object.
Payloads ==
    {[kind |-> "none", approved_ids |-> {}],
     [kind |-> "empty", approved_ids |-> {}],
     [kind |-> "object_without_key", approved_ids |-> {}],
     [kind |-> "malformed", approved_ids |-> {}]}
    \cup [kind : {"object"}, approved_ids : SUBSET PayloadIds]

NoPayload == [kind |-> "unset", approved_ids |-> {}]

\* json.loads(callback.result() or '{}') succeeds
Parses(result) == result.kind # "malformed"

\* mutant: a payload without an approved_ids list approves everything
ParseApprovedIds_FailOpen(result) ==
    IF result.kind = "object" THEN result.approved_ids ELSE PayloadIds

\* json.loads(callback.result() or '{}').get('approved_ids', [])
ParseApprovedIds(result) ==
    IF result.kind = "object" THEN result.approved_ids ELSE {}

\* mutant: every flagged id is rejected, approved or not
RejectedIds_All(hv_ids, appr_ids) == hv_ids

\* [id for id in high_value_ids if id not in approved_ids]
RejectedIds(hv_ids, appr_ids) ==
    SelectSeq(hv_ids, LAMBDA id : id \notin appr_ids)

\* mutant: the amount clause is lost, only listed ids are approved
ApprovedRecords_IdOnly(recs, appr_ids) ==
    SelectSeq(recs, LAMBDA r : r.id \in appr_ids)

\* [r for r in processed if r['amount'] < HIGH_VALUE_THRESHOLD
\*                          or r['id'] in approved_ids]
ApprovedRecords(recs, appr_ids) ==
    SelectSeq(recs, LAMBDA r : r.amount < HIGH_VALUE_THRESHOLD
                               \/ r.id \in appr_ids)

\* [r for r in processed if r['id'] in rejected_ids]
RejectedRecords(recs, rej_ids) ==
    SelectSeq(recs, LAMBDA r : \E k \in 1..Len(rej_ids) : rej_ids[k] = r.id)

(***************************************************************************)
(* LedgerSync: the retry strategy and the batch loop.                      *)
(***************************************************************************)
\* mutant: one retry too many
should_retry_Inclusive(n) == n <= RETRY_LIMIT

\* 'should_retry': n < 5, n the number of attempts made so far
should_retry(n) == n < RETRY_LIMIT

\* 'delay': min(5 * 2**(n-1), 60)
delay(n) == Min(BACKOFF_BASE * Pow2(n - 1), BACKOFF_CAP)

\* mutant: approved_records[i:API_BATCH_SIZE], the end of the slice is not
\* moved with its start
SyncBatch_FixedEnd(recs, i) ==
    SubSeq(recs, i + 1, Min(API_BATCH_SIZE, Len(recs)))

\* approved_records[i:i + API_BATCH_SIZE]
SyncBatch(recs, i) == Slice(recs, i, API_BATCH_SIZE)

\* mutant: <= for <, a wait after a full last batch
HasNextBatch_OffByOne(i, n) == i + API_BATCH_SIZE <= n

\* if i + API_BATCH_SIZE < len(approved_records)
HasNextBatch(i, n) == i + API_BATCH_SIZE < n

\* for i in range(0, len(approved_records), API_BATCH_SIZE): the first
\* iteration, or the statement after the loop when there is none
SyncEntry(recs) == IF Len(recs) > 0 THEN "sync" ELSE "report"

(***************************************************************************)
(* State of one run.                                                       *)
(***************************************************************************)
VARIABLES
    pc,               \* position of lambda_handler
    source,           \* sales/{date}.csv in S3, or NoSuchKey
    records,          \* records
    processed,        \* processed
    high_value_ids,   \* high_value_ids
    callback,         \* "none", "pending", "succeeded", "timed_out"
    approval_requests,\* callback ids handed to send_approval_request
    decision,         \* what callback.result() returned
    approved_ids,     \* approved_ids
    rejected_ids,     \* rejected_ids
    approved_records, \* approved_records
    rejected_records, \* rejected_records
    i,                \* loop variable of the sync loop
    attempt,          \* attempts made of the current sync step
    in_flight,        \* offsets of the batches being executed by the API
    submitted,        \* every call of sync_to_external_api: offset and batch
    delays,           \* retry delays applied to the current sync step
    ledger,           \* batches the external ledger has accepted
    waits,            \* durations of the context.wait calls made
    s3_objects,       \* report keys written to S3
    report,           \* what generate_report returned
    result,           \* what lambda_handler returned
    error,            \* the failure that ended the run
    failed_at,        \* the position at which that failure was raised
    batch_status,     \* context.map: "queued", "executing", "succeeded",
                      \* "failed" for each batch
    batch_results,    \* context.map: the result recorded for each batch
    executions,       \* context.map: times each batch was started
    completion_order  \* context.map: batch indexes as they completed

vars == <<pc, source, records, processed, high_value_ids, callback,
          approval_requests, decision, approved_ids, rejected_ids,
          approved_records, rejected_records, i, attempt, in_flight,
          submitted, delays, ledger, waits, s3_objects, report, result, error,
          failed_at, batch_status, batch_results, executions,
          completion_order>>

map_vars == <<batch_status, batch_results, executions, completion_order>>

gate_vars == <<callback, approval_requests, decision, approved_ids,
               rejected_ids, approved_records>>

sync_vars == <<i, attempt, in_flight, submitted, delays, ledger, waits>>

report_vars == <<rejected_records, s3_objects, report, result>>

NoReport == [summary_url |-> "unset", rejected_url |-> "unset"]

NoResult == [status |-> "unset", total_records |-> 0, approved_records |-> 0,
             rejected_records |-> 0, report_url |-> "unset"]

Init ==
    /\ pc = "fetch"
    /\ source \in Sources
    /\ records = << >>
    /\ processed = << >>
    /\ high_value_ids = << >>
    /\ callback = "none"
    /\ approval_requests = 0
    /\ decision = NoPayload
    /\ approved_ids = {}
    /\ rejected_ids = << >>
    /\ approved_records = << >>
    /\ rejected_records = << >>
    /\ i = 0
    /\ attempt = 0
    /\ in_flight = {}
    /\ submitted = << >>
    /\ delays = << >>
    /\ ledger = << >>
    /\ waits = << >>
    /\ s3_objects = {}
    /\ report = NoReport
    /\ result = NoResult
    /\ error = "none"
    /\ failed_at = "none"
    /\ batch_status = << >>
    /\ batch_results = << >>
    /\ executions = << >>
    /\ completion_order = << >>

\* the row that fetch_sales_data builds for the k-th line of the export
DayRow(k, amount) ==
    [id |-> DayIds[k], customer_name |-> "Sato", product |-> "laptop",
     amount |-> amount, quantity |-> 1, region |-> "Tokyo",
     category |-> "electronics", timestamp |-> "2026-02-20T09:00:00"]

\* exports of at most n rows with unique ids and amounts of a set
DayExports(n, amounts) ==
    UNION {{[k \in 1..m |-> DayRow(k, am[k])] : am \in [1..m -> amounts]} :
           m \in 0..n}

\* nothing past the Ingestor has run
Idle ==
    /\ processed = << >>
    /\ high_value_ids = << >>
    /\ callback = "none"
    /\ approval_requests = 0
    /\ decision = NoPayload
    /\ approved_ids = {}
    /\ rejected_ids = << >>
    /\ approved_records = << >>
    /\ rejected_records = << >>
    /\ i = 0
    /\ attempt = 0
    /\ in_flight = {}
    /\ submitted = << >>
    /\ delays = << >>
    /\ ledger = << >>
    /\ waits = << >>
    /\ s3_objects = {}
    /\ report = NoReport
    /\ result = NoResult
    /\ error = "none"
    /\ failed_at = "none"

\* a run on an export whose ids are unique
InitDay ==
    /\ pc = "fetch"
    /\ source \in [exists : {TRUE}, rows : DayExports(MaxRecords, Amounts)]
                     \cup {NoSuchKey}
    /\ records = << >>
    /\ Idle
    /\ batch_status = << >>
    /\ batch_results = << >>
    /\ executions = << >>
    /\ completion_order = << >>

\* lambda_handler has fetched rows and hands their batches to context.map
AtMap(rows) ==
    /\ pc = "map"
    /\ source = [exists |-> TRUE, rows |-> rows]
    /\ records = rows
    /\ Idle
    /\ batch_status = [b \in DOMAIN Batches(rows) |-> "queued"]
    /\ batch_results = [b \in DOMAIN Batches(rows) |-> << >>]
    /\ executions = [b \in DOMAIN Batches(rows) |-> 0]
    /\ completion_order = << >>

\* the Enricher on exports of several batches
InitEnrich == \E rows \in DayExports(MaxEnrichRecords, Amounts) : AtMap(rows)

\* the Enricher on one record of every amount
InitRecord == \E a \in RecordAmounts : AtMap(<<DayRow(1, a)>>)

RECURSIVE Sum(_, _)
\* seq[1] + ... + seq[k]
Sum(seq, k) == IF k = 0 THEN 0 ELSE Sum(seq, k - 1) + seq[k]

\* batches that were started at least once
Started == Cardinality({b \in DOMAIN executions : executions[b] > 0})

\* context.map takes the batches: none is started yet
StartMap(batches) ==
    /\ batch_status' = [b \in DOMAIN batches |-> "queued"]
    /\ batch_results' = [b \in DOMAIN batches |-> << >>]
    /\ executions' = [b \in DOMAIN batches |-> 0]
    /\ completion_order' = << >>

\* an exception leaves lambda_handler: the run fails where it stands
Fail(kind) ==
    /\ pc' = "failed"
    /\ error' = kind
    /\ failed_at' = pc

(***************************************************************************)
(* Step 1: fetch_sales_data.                                               *)
(***************************************************************************)
FetchSalesData ==
    /\ pc = "fetch"
    /\ IF ~source.exists
       THEN /\ Fail("SourceNotFoundError")
            /\ UNCHANGED <<records, map_vars>>
       ELSE /\ records' = source.rows
            /\ pc' = "map"
            /\ StartMap(Batches(source.rows))
            /\ UNCHANGED <<error, failed_at>>
    /\ UNCHANGED <<source, processed, high_value_ids>>
    /\ UNCHANGED <<gate_vars, sync_vars, report_vars>>

(***************************************************************************)
(* Step 2: context.map over the batches, all_successful, and the merge.    *)
(***************************************************************************)
Executing == {b \in DOMAIN batch_status : batch_status[b] = "executing"}

Reexecutions == Sum(executions, Len(executions)) - Started

\* mutant: every queued batch is started at once
AdmitBatch_Unbounded ==
    /\ pc = "map"
    /\ \E b \in DOMAIN batch_status :
        /\ batch_status[b] = "queued"
        /\ batch_status' = [batch_status EXCEPT ![b] = "executing"]
        /\ executions' = [executions EXCEPT ![b] = @ + 1]
    /\ UNCHANGED <<pc, source, records, processed, high_value_ids, error,
                   failed_at, batch_results, completion_order>>
    /\ UNCHANGED <<gate_vars, sync_vars, report_vars>>

\* a queued batch is started when fewer than max_concurrency are executing
AdmitBatch ==
    /\ pc = "map"
    /\ \E b \in DOMAIN batch_status :
        /\ batch_status[b] = "queued"
        /\ Cardinality(Executing) < MAX_CONCURRENCY
        /\ batch_status' = [batch_status EXCEPT ![b] = "executing"]
        /\ executions' = [executions EXCEPT ![b] = @ + 1]
    /\ UNCHANGED <<pc, source, records, processed, high_value_ids, error,
                   failed_at, batch_results, completion_order>>
    /\ UNCHANGED <<gate_vars, sync_vars, report_vars>>

\* mutant: process_batch appends to a list that outlives the execution, so
\* the recorded result holds the output of every execution of the batch
BatchSucceeds_SharedList ==
    /\ pc = "map"
    /\ \E b \in Executing :
        /\ batch_status' = [batch_status EXCEPT ![b] = "succeeded"]
        /\ batch_results' =
              [batch_results EXCEPT ![b] =
                  Extend([k \in 1..executions[b] |->
                             process_batch(Batches(records)[b])],
                         executions[b])]
        /\ completion_order' = Append(completion_order, b)
    /\ UNCHANGED <<pc, source, records, processed, high_value_ids, error,
                   failed_at, executions>>
    /\ UNCHANGED <<gate_vars, sync_vars, report_vars>>

\* process_batch returns: the result of the batch is recorded
BatchSucceeds ==
    /\ pc = "map"
    /\ \E b \in Executing :
        /\ batch_status' = [batch_status EXCEPT ![b] = "succeeded"]
        /\ batch_results' =
              [batch_results EXCEPT ![b] = process_batch(Batches(records)[b])]
        /\ completion_order' = Append(completion_order, b)
    /\ UNCHANGED <<pc, source, records, processed, high_value_ids, error,
                   failed_at, executions>>
    /\ UNCHANGED <<gate_vars, sync_vars, report_vars>>

\* the execution of a batch fails
BatchFails ==
    /\ pc = "map"
    /\ \E b \in Executing :
        batch_status' = [batch_status EXCEPT ![b] = "failed"]
    /\ UNCHANGED <<pc, source, records, processed, high_value_ids, error,
                   failed_at, batch_results, executions, completion_order>>
    /\ UNCHANGED <<gate_vars, sync_vars, report_vars>>

\* the invocation is interrupted while a batch executes; on resumption the
\* batch, which has no recorded result, is executed again
BatchReexecuted ==
    /\ pc = "map"
    /\ Reexecutions < MaxReexecutions
    /\ \E b \in Executing :
        executions' = [executions EXCEPT ![b] = @ + 1]
    /\ UNCHANGED <<pc, source, records, processed, high_value_ids, error,
                   failed_at, batch_status, batch_results, completion_order>>
    /\ UNCHANGED <<gate_vars, sync_vars, report_vars>>

\* mutant: failures are tolerated, the results of the batches that
\* succeeded are merged
MapCompletes_Partial ==
    /\ pc = "map"
    /\ \A b \in DOMAIN batch_status :
          batch_status[b] \in {"succeeded", "failed"}
    /\ processed' = Extend(batch_results, Len(batch_results))
    /\ pc' = "extract"
    /\ UNCHANGED <<source, records, high_value_ids, error, failed_at>>
    /\ UNCHANGED <<map_vars, gate_vars, sync_vars, report_vars>>

\* every batch succeeded: get_results() in the order of the batches, merged
MapCompletes ==
    /\ pc = "map"
    /\ \A b \in DOMAIN batch_status : batch_status[b] = "succeeded"
    /\ processed' = Extend(batch_results, Len(batch_results))
    /\ pc' = "extract"
    /\ UNCHANGED <<source, records, high_value_ids, error, failed_at>>
    /\ UNCHANGED <<map_vars, gate_vars, sync_vars, report_vars>>

\* a batch failed: CompletionConfig.all_successful() fails the map
MapFails ==
    /\ pc = "map"
    /\ \E b \in DOMAIN batch_status : batch_status[b] = "failed"
    /\ Fail("EnrichmentBatchFailure")
    /\ UNCHANGED <<source, records, processed, high_value_ids>>
    /\ UNCHANGED <<map_vars, gate_vars, sync_vars, report_vars>>

(***************************************************************************)
(* Step 3: extract_high_value_ids.                                         *)
(***************************************************************************)
ExtractHighValueIds ==
    /\ pc = "extract"
    /\ high_value_ids' = extract_high_value_ids(processed, HIGH_VALUE_THRESHOLD)
    /\ pc' = "gate"
    /\ StartMap(<< >>)    \* map_result is not read after the merge
    /\ UNCHANGED <<source, records, processed, error, failed_at>>
    /\ UNCHANGED <<gate_vars, sync_vars, report_vars>>

(***************************************************************************)
(* Step 4: the approval flow.                                              *)
(***************************************************************************)
\* if high_value_ids: is false; approved_ids = [], rejected_ids = [] stand
\* and approved_records is computed from them
SkipGate ==
    /\ pc = "gate"
    /\ high_value_ids = << >>
    /\ approved_records' = ApprovedRecords(processed, approved_ids)
    /\ pc' = SyncEntry(approved_records')
    /\ UNCHANGED <<source, records, processed, high_value_ids, error, failed_at>>
    /\ UNCHANGED <<callback, approval_requests, decision, approved_ids,
                   rejected_ids>>
    /\ UNCHANGED <<sync_vars, report_vars>>
    /\ UNCHANGED map_vars

\* mutant: the callback is created without the test if high_value_ids:
CreateCallback_Unguarded ==
    /\ pc = "gate"
    /\ callback' = "pending"
    /\ pc' = "send"
    /\ UNCHANGED <<source, records, processed, high_value_ids, error, failed_at>>
    /\ UNCHANGED <<approval_requests, decision, approved_ids, rejected_ids,
                   approved_records>>
    /\ UNCHANGED <<sync_vars, report_vars>>
    /\ UNCHANGED map_vars

\* context.create_callback(..., timeout=Duration.from_days(3))
CreateCallback ==
    /\ pc = "gate"
    /\ high_value_ids # << >>
    /\ callback' = "pending"
    /\ pc' = "send"
    /\ UNCHANGED <<source, records, processed, high_value_ids, error, failed_at>>
    /\ UNCHANGED <<approval_requests, decision, approved_ids, rejected_ids,
                   approved_records>>
    /\ UNCHANGED <<sync_vars, report_vars>>
    /\ UNCHANGED map_vars

\* mutant: the request is sent and the handler goes on to the sync loop
\* without awaiting the decision
SendApprovalRequest_FireAndForget ==
    /\ pc = "send"
    /\ approval_requests' = approval_requests + 1
    /\ pc' = "sync"
    /\ UNCHANGED <<source, records, processed, high_value_ids, error, failed_at>>
    /\ UNCHANGED <<callback, decision, approved_ids, rejected_ids,
                   approved_records>>
    /\ UNCHANGED <<sync_vars, report_vars>>
    /\ UNCHANGED map_vars

\* context.step(send_approval_request(callback.callback_id, ...))
SendApprovalRequest ==
    /\ pc = "send"
    /\ approval_requests' = approval_requests + 1
    /\ pc' = "await"
    /\ UNCHANGED <<source, records, processed, high_value_ids, error, failed_at>>
    /\ UNCHANGED <<callback, decision, approved_ids, rejected_ids,
                   approved_records>>
    /\ UNCHANGED <<sync_vars, report_vars>>
    /\ UNCHANGED map_vars

\* the approver resolves the callback with a payload of their choice
\* (send-durable-execution-callback-success)
ApproverDecides ==
    /\ callback = "pending"
    /\ approval_requests > 0
    /\ \E payload \in Payloads :
          /\ decision' = payload
          /\ callback' = "succeeded"
    /\ UNCHANGED <<pc, source, records, processed, high_value_ids, error, failed_at>>
    /\ UNCHANGED <<approval_requests, approved_ids, rejected_ids,
                   approved_records>>
    /\ UNCHANGED <<sync_vars, report_vars>>
    /\ UNCHANGED map_vars

\* mutant: the callback is created without a timeout, no deadline elapses
DeadlineElapses_Never ==
    /\ callback = "pending"
    /\ FALSE
    /\ UNCHANGED vars

\* the 3 days of the CallbackConfig elapse without a decision
DeadlineElapses ==
    /\ callback = "pending"
    /\ callback' = "timed_out"
    /\ UNCHANGED <<pc, source, records, processed, high_value_ids, error, failed_at>>
    /\ UNCHANGED <<approval_requests, decision, approved_ids, rejected_ids,
                   approved_records>>
    /\ UNCHANGED <<sync_vars, report_vars>>
    /\ UNCHANGED map_vars

\* approval_result = json.loads(callback.result() or '{}') and the
\* reconciliation that follows it, for the value callback.result() returned
Reconcile(returned) ==
    IF Parses(returned)
    THEN /\ approved_ids' = ParseApprovedIds(returned)
         /\ rejected_ids' = RejectedIds(high_value_ids, approved_ids')
         \* if rejected_ids: rejected_records = [...]
         /\ rejected_records' = IF rejected_ids' # << >>
                                THEN RejectedRecords(processed, rejected_ids')
                                ELSE rejected_records
         /\ approved_records' = ApprovedRecords(processed, approved_ids')
         /\ pc' = SyncEntry(approved_records')
         /\ UNCHANGED <<error, failed_at>>
    ELSE /\ Fail("DecisionParseError")
         /\ UNCHANGED <<approved_ids, rejected_ids, approved_records,
                        rejected_records>>

\* callback.result() returns the payload the approver sent
AwaitDecision ==
    /\ pc = "await"
    /\ callback = "succeeded"
    /\ Reconcile(decision)
    /\ UNCHANGED <<source, records, processed, high_value_ids>>
    /\ UNCHANGED <<callback, approval_requests, decision>>
    /\ UNCHANGED <<sync_vars, s3_objects, report, result>>
    /\ UNCHANGED map_vars

\* callback.result() after the deadline.  What the runtime hands back then
\* is not decided by the handler: it returns no result (None), which the
\* handler reads as '{}' ...
AwaitTimeoutNoResult ==
    /\ pc = "await"
    /\ callback = "timed_out"
    /\ decision' = [kind |-> "none", approved_ids |-> {}]
    /\ Reconcile(decision')
    /\ UNCHANGED <<source, records, processed, high_value_ids>>
    /\ UNCHANGED <<callback, approval_requests>>
    /\ UNCHANGED <<sync_vars, s3_objects, report, result>>
    /\ UNCHANGED map_vars

\* ... or it raises, and the handler, which catches nothing, fails
AwaitTimeoutRaises ==
    /\ pc = "await"
    /\ callback = "timed_out"
    /\ Fail("ApprovalTimeout")
    /\ UNCHANGED <<source, records, processed, high_value_ids>>
    /\ UNCHANGED gate_vars
    /\ UNCHANGED <<sync_vars, report_vars>>
    /\ UNCHANGED map_vars

(***************************************************************************)
(* Step 5: the sync loop.  A context.step of sync_to_external_api is in    *)
(* flight from its dispatch to its outcome; the API decides the outcome.   *)
(***************************************************************************)
Call(offset) == [offset |-> offset, batch |-> SyncBatch(approved_records, offset)]

\* the loop body starts for offset i: the first attempt of the step
SyncDispatch ==
    /\ pc = "sync"
    /\ attempt' = 1
    /\ delays' = << >>
    /\ in_flight' = in_flight \cup {i}
    /\ submitted' = Append(submitted, Call(i))
    /\ pc' = "in_step"
    /\ UNCHANGED <<source, records, processed, high_value_ids, error, failed_at>>
    /\ UNCHANGED <<gate_vars, report_vars>>
    /\ UNCHANGED <<i, ledger, waits>>
    /\ UNCHANGED map_vars

\* the step returns {'synced': len(records)}; then
\* if i + API_BATCH_SIZE < len(approved_records) decides on the wait
SyncSucceeds ==
    /\ pc = "in_step"
    /\ ledger' = Append(ledger, SyncBatch(approved_records, i))
    /\ in_flight' = in_flight \ {i}
    /\ pc' = IF HasNextBatch(i, Len(approved_records))
             THEN "rate_wait" ELSE "report"
    /\ UNCHANGED <<source, records, processed, high_value_ids, error, failed_at>>
    /\ UNCHANGED <<gate_vars, report_vars>>
    /\ UNCHANGED <<i, attempt, submitted, delays, waits>>
    /\ UNCHANGED map_vars

\* mutant: the exhausted step's exception is swallowed and the loop goes on
SyncAttemptFails_Swallowed ==
    /\ pc = "in_step"
    /\ in_flight' = in_flight \ {i}
    /\ IF should_retry(attempt)
       THEN /\ delays' = Append(delays, delay(attempt))
            /\ pc' = "backoff"
            /\ UNCHANGED <<error, failed_at>>
       ELSE /\ error' = "SyncFailure"
            /\ failed_at' = pc
            /\ pc' = IF HasNextBatch(i, Len(approved_records))
                     THEN "rate_wait" ELSE "report"
            /\ UNCHANGED delays
    /\ UNCHANGED <<source, records, processed, high_value_ids>>
    /\ UNCHANGED <<gate_vars, report_vars>>
    /\ UNCHANGED <<i, attempt, submitted, ledger, waits>>
    /\ UNCHANGED map_vars

\* the step raises: the runtime asks retry_strategy(e, n) with the number
\* n of attempts made, and either schedules a retry after 'delay' seconds
\* or lets the exception leave the handler
SyncAttemptFails ==
    /\ pc = "in_step"
    /\ in_flight' = in_flight \ {i}
    /\ IF should_retry(attempt)
       THEN /\ delays' = Append(delays, delay(attempt))
            /\ pc' = "backoff"
            /\ UNCHANGED <<error, failed_at>>
       ELSE /\ Fail("SyncFailure")
            /\ UNCHANGED delays
    /\ UNCHANGED <<source, records, processed, high_value_ids>>
    /\ UNCHANGED <<gate_vars, report_vars>>
    /\ UNCHANGED <<i, attempt, submitted, ledger, waits>>
    /\ UNCHANGED map_vars

\* the delay has passed: the next attempt of the same step
SyncRetry ==
    /\ pc = "backoff"
    /\ attempt' = attempt + 1
    /\ in_flight' = in_flight \cup {i}
    /\ submitted' = Append(submitted, Call(i))
    /\ pc' = "in_step"
    /\ UNCHANGED <<source, records, processed, high_value_ids, error, failed_at>>
    /\ UNCHANGED <<gate_vars, report_vars>>
    /\ UNCHANGED <<i, delays, ledger, waits>>
    /\ UNCHANGED map_vars

\* context.wait(Duration.from_seconds(API_RATE_LIMIT_WAIT_SECONDS)), then
\* the loop goes on to the next offset
RateLimitWait ==
    /\ pc = "rate_wait"
    /\ waits' = Append(waits, API_RATE_LIMIT_WAIT_SECONDS)
    /\ i' = i + API_BATCH_SIZE
    /\ pc' = "sync"
    /\ UNCHANGED <<source, records, processed, high_value_ids, error, failed_at>>
    /\ UNCHANGED <<gate_vars, report_vars>>
    /\ UNCHANGED <<attempt, in_flight, submitted, delays, ledger>>
    /\ UNCHANGED map_vars

(***************************************************************************)
(* Step 6: generate_report and the handler's result.                       *)
(***************************************************************************)
\* mutant: the rejection detail is written without the test
\* if rejected_records:
BeginReport_AlwaysDetail ==
    /\ pc = "report"
    /\ rejected_records' = RejectedRecords(processed, rejected_ids)
    /\ pc' = "put_rejected"
    /\ UNCHANGED <<source, records, processed, high_value_ids, error, failed_at>>
    /\ UNCHANGED <<gate_vars, sync_vars>>
    /\ UNCHANGED <<s3_objects, report, result>>
    /\ UNCHANGED map_vars

\* rejected_records = [r for r in processed if r['id'] in rejected_ids];
\* generate_report starts: if rejected_records: ...
BeginReport ==
    /\ pc = "report"
    /\ rejected_records' = RejectedRecords(processed, rejected_ids)
    /\ pc' = IF rejected_records' # << >> THEN "put_rejected" ELSE "put_summary"
    /\ UNCHANGED <<source, records, processed, high_value_ids, error, failed_at>>
    /\ UNCHANGED <<gate_vars, sync_vars>>
    /\ UNCHANGED <<s3_objects, report, result>>
    /\ UNCHANGED map_vars

\* s3.put_object(Key=rejected/{date}-rejected.json)
PutRejected ==
    /\ pc = "put_rejected"
    /\ s3_objects' = s3_objects \cup {"rejected"}
    /\ pc' = "put_summary"
    /\ UNCHANGED <<source, records, processed, high_value_ids, error, failed_at>>
    /\ UNCHANGED <<gate_vars, sync_vars>>
    /\ UNCHANGED <<rejected_records, report, result>>
    /\ UNCHANGED map_vars

\* s3.put_object(Key=reports/{date}-report.json) and the step's return
PutSummary ==
    /\ pc = "put_summary"
    /\ s3_objects' = s3_objects \cup {"summary"}
    /\ report' = [summary_url |-> "summary",
                  rejected_url |-> IF rejected_records # << >>
                                   THEN "rejected" ELSE "null"]
    /\ pc' = "return"
    /\ UNCHANGED <<source, records, processed, high_value_ids, error, failed_at>>
    /\ UNCHANGED <<gate_vars, sync_vars>>
    /\ UNCHANGED <<rejected_records, result>>
    /\ UNCHANGED map_vars

\* mutant: a failed write deletes what generate_report had written
PutFails_RollsBack ==
    /\ pc \in {"put_rejected", "put_summary"}
    /\ Fail("ReportWriteFailure")
    /\ s3_objects' = {}
    /\ UNCHANGED <<source, records, processed, high_value_ids>>
    /\ UNCHANGED <<gate_vars, sync_vars>>
    /\ UNCHANGED <<rejected_records, report, result>>
    /\ UNCHANGED map_vars

\* either put_object raises: generate_report fails, nothing is undone
PutFails ==
    /\ pc \in {"put_rejected", "put_summary"}
    /\ Fail("ReportWriteFailure")
    /\ UNCHANGED <<source, records, processed, high_value_ids>>
    /\ UNCHANGED <<gate_vars, sync_vars, report_vars>>
    /\ UNCHANGED map_vars

\* return {'status': 'completed', ...}
Return ==
    /\ pc = "return"
    /\ result' = [status |-> "completed",
                  total_records |-> Len(records),
                  approved_records |-> Len(approved_records),
                  rejected_records |-> Len(rejected_records),
                  report_url |-> report.summary_url]
    /\ pc' = "completed"
    /\ UNCHANGED <<source, records, processed, high_value_ids, error, failed_at>>
    /\ UNCHANGED <<gate_vars, sync_vars>>
    /\ UNCHANGED <<rejected_records, s3_objects, report>>
    /\ UNCHANGED map_vars

Next ==
    \/ FetchSalesData
    \/ AdmitBatch
    \/ BatchSucceeds
    \/ BatchFails
    \/ BatchReexecuted
    \/ MapCompletes
    \/ MapFails
    \/ ExtractHighValueIds
    \/ SkipGate
    \/ CreateCallback
    \/ SendApprovalRequest
    \/ ApproverDecides
    \/ DeadlineElapses
    \/ AwaitDecision
    \/ AwaitTimeoutNoResult
    \/ AwaitTimeoutRaises
    \/ SyncDispatch
    \/ SyncSucceeds
    \/ SyncAttemptFails
    \/ SyncRetry
    \/ RateLimitWait
    \/ BeginReport
    \/ PutRejected
    \/ PutSummary
    \/ PutFails
    \/ Return

Spec == Init /\ [][Next]_vars

\* the steps of the Enricher
NextEnrich ==
    \/ AdmitBatch
    \/ BatchSucceeds
    \/ BatchFails
    \/ BatchReexecuted
    \/ MapCompletes
    \/ MapFails

SpecEnrich == InitEnrich /\ [][NextEnrich]_vars

SpecRecord == InitRecord /\ [][NextEnrich]_vars

\* the runtime keeps executing what it can execute
SpecEnrichFair == SpecEnrich /\ WF_vars(NextEnrich)

\* every step but the approver's: the runtime's steps, the answers of the
\* services it calls, the passing of time
RuntimeStep ==
    \/ FetchSalesData
    \/ NextEnrich
    \/ ExtractHighValueIds
    \/ SkipGate
    \/ CreateCallback
    \/ SendApprovalRequest
    \/ DeadlineElapses
    \/ AwaitDecision
    \/ AwaitTimeoutNoResult
    \/ AwaitTimeoutRaises
    \/ SyncDispatch
    \/ SyncSucceeds
    \/ SyncAttemptFails
    \/ SyncRetry
    \/ RateLimitWait
    \/ BeginReport
    \/ PutRejected
    \/ PutSummary
    \/ PutFails
    \/ Return

SpecDay == InitDay /\ [][Next]_vars

\* the runtime takes the steps it can take and time passes; nothing is
\* assumed of the approver
SpecDayFair == SpecDay /\ WF_vars(RuntimeStep)

(***************************************************************************)
(* Vocabulary of the properties.                                           *)
(***************************************************************************)
SetOf(seq) == {seq[k] : k \in 1..Len(seq)}

\* the approval gate is behind the run: resolved by a decision or skipped
GateResolved ==
    \/ pc \in {"sync", "in_step", "backoff", "rate_wait", "report",
               "put_rejected", "put_summary", "return", "completed"}
    \/ pc = "failed" /\ error \in {"SyncFailure", "ReportWriteFailure"}

\* rejected_records has been computed for the report
Reported ==
    \/ pc \in {"put_rejected", "put_summary", "return", "completed"}
    \/ pc = "failed" /\ error = "ReportWriteFailure"

\* every record handed to sync_to_external_api, in any attempt
SubmittedRecords == UNION {SetOf(submitted[k].batch) : k \in 1..Len(submitted)}

\* every record the ledger accepted
LedgerRecords == UNION {SetOf(ledger[k]) : k \in 1..Len(ledger)}

\* the ids the received decision payload lists as approved
PayloadApproved == IF decision.kind = "object" THEN decision.approved_ids ELSE {}

UniqueIds(recs) ==
    \A a, b \in 1..Len(recs) : recs[a].id = recs[b].id => a = b

\* the number of occurrences of a record in a sequence
Count(seq, r) == Cardinality({k \in 1..Len(seq) : seq[k] = r})

(***************************************************************************)
(* C1: a record with amount >= HIGH_VALUE_THRESHOLD is handed to           *)
(* sync_to_external_api only if its id is in the approved_ids of the       *)
(* decision payload this run received; once the gate is resolved, every    *)
(* high-value id absent from the payload is in rejected_ids and no         *)
(* high-value record carrying it reaches the ledger.                       *)
(***************************************************************************)
C1_FailClosed ==
    /\ \A r \in SubmittedRecords \cup LedgerRecords :
          r.amount >= HIGH_VALUE_THRESHOLD => r.id \in PayloadApproved
    /\ GateResolved =>
          \A id \in SetOf(high_value_ids) \ PayloadApproved :
             /\ id \in SetOf(rejected_ids)
             /\ ~\E r \in SubmittedRecords \cup LedgerRecords :
                   r.id = id /\ r.amount >= HIGH_VALUE_THRESHOLD

\* the ledger holds an approved high-value record while another high-value
\* id, absent from the payload, was rejected
C1_Witness ==
    /\ \E r \in LedgerRecords : r.amount >= HIGH_VALUE_THRESHOLD
    /\ \E id \in SetOf(high_value_ids) : id \notin PayloadApproved
    /\ rejected_ids # << >>

(***************************************************************************)
(* C2: for an input with unique ids, once rejected_records is computed     *)
(* every enriched record is in exactly one of approved_records and         *)
(* rejected_records, and the counts of the final result add up to          *)
(* total_records.                                                          *)
(***************************************************************************)
C2_Partition ==
    (UniqueIds(records) /\ Reported) =>
        /\ \A k \in 1..Len(processed) :
              Count(approved_records, processed[k])
                + Count(rejected_records, processed[k]) = 1
        /\ SetOf(approved_records) \cap SetOf(rejected_records) = {}
        /\ SetOf(approved_records) \cup SetOf(rejected_records) = SetOf(processed)
        /\ Len(approved_records) + Len(rejected_records) = Len(processed)
        /\ pc = "completed" =>
              result.approved_records + result.rejected_records
                 = result.total_records

\* a completed run on unique ids with both partitions non-empty
C2_Witness ==
    /\ pc = "completed"
    /\ UniqueIds(records)
    /\ result.approved_records > 0
    /\ result.rejected_records > 0
    /\ result.total_records = MaxRecords

(***************************************************************************)
(* C3: with high-value ids H and a payload approved_ids = A, rejected_ids  *)
(* is H - (A \cap H), and the ids of A outside H change nothing: both       *)
(* partitions are those of the payload A \cap H.                            *)
(***************************************************************************)
C3_Reconcile ==
    (GateResolved /\ decision.kind = "object") =>
        LET H == SetOf(high_value_ids)
            A == decision.approved_ids
        IN /\ SetOf(rejected_ids) = H \ (A \cap H)
           /\ rejected_ids = SelectSeq(high_value_ids,
                                       LAMBDA id : id \notin (A \cap H))
           /\ approved_records =
                 SelectSeq(processed,
                           LAMBDA r : \/ r.amount < HIGH_VALUE_THRESHOLD
                                      \/ r.id \in (A \cap H))
           /\ Reported =>
                 rejected_records =
                    SelectSeq(processed, LAMBDA r : r.id \in H \ (A \cap H))

\* a payload that approves one flagged id, leaves another out, and names
\* the id of a low-value record and the id of no record
C3_Witness ==
    /\ Reported
    /\ decision.kind = "object"
    /\ \E h1, h2 \in SetOf(high_value_ids) :
          h1 \in decision.approved_ids /\ h2 \notin decision.approved_ids
    /\ "99999" \in decision.approved_ids
    /\ \E r \in SetOf(processed) :
          /\ r.amount < HIGH_VALUE_THRESHOLD
          /\ r.id \in decision.approved_ids \ SetOf(high_value_ids)

(***************************************************************************)
(* C4: when no enriched record reaches the threshold, no callback is ever  *)
(* created, no approval request is sent and no decision is awaited; past   *)
(* the gate, approved_records is all of processed and nothing is rejected. *)
(***************************************************************************)
C4_NoHighValueSkipsGate ==
    (pc \notin {"fetch", "map", "extract"}
       /\ \A r \in SetOf(processed) : r.amount < HIGH_VALUE_THRESHOLD) =>
        /\ callback = "none"
        /\ approval_requests = 0
        /\ decision = NoPayload
        /\ pc \notin {"send", "await"}
        /\ GateResolved =>
              /\ approved_records = processed
              /\ rejected_ids = << >>
              /\ rejected_records = << >>

\* a run of low-value records only that synced them all
C4_Witness ==
    /\ pc = "completed"
    /\ Len(processed) = MaxRecords
    /\ \A r \in SetOf(processed) : r.amount < HIGH_VALUE_THRESHOLD
    /\ LedgerRecords = SetOf(processed)

InSyncStep == pc \in {"in_step", "backoff"} \/ error = "SyncFailure"

\* consecutive failures of the current batch so far
Failures == IF pc = "in_step" THEN attempt - 1 ELSE attempt

\* calls of sync_to_external_api made for the batch at an offset
Attempts(offset) ==
    Cardinality({k \in 1..Len(submitted) : submitted[k].offset = offset})

\* the k-th consecutive slice of approved_records
KthBatch(k) ==
    SubSeq(approved_records, (k - 1) * API_BATCH_SIZE + 1,
           Min(k * API_BATCH_SIZE, Len(approved_records)))

\* the number of batches approved_records splits into
NumBatches == (Len(approved_records) + API_BATCH_SIZE - 1) \div API_BATCH_SIZE

\* the sync loop has ended normally
SyncDone ==
    \/ pc \in {"report", "put_rejected", "put_summary", "return", "completed"}
    \/ pc = "failed" /\ error = "ReportWriteFailure"

(***************************************************************************)
(* C6: for consecutive failures of one LedgerSync batch the delays applied *)
(* before the retries are 5, 10, 20, 40, 60 seconds: after the n-th        *)
(* failure, n = 1..5, the delay min(5 * 2^(n-1), 60) has been applied.     *)
(***************************************************************************)
C6_DelaysFiveTenTwentyFortySixty ==
    InSyncStep => delays = SubSeq(<<5, 10, 20, 40, 60>>, 1, Failures)

C8_NoReportNoRollback ==
    error = "SyncFailure" =>
        /\ pc = "failed"
        /\ s3_objects = {}
        /\ report = NoReport
        /\ result = NoResult
        /\ result.status # "completed"
        /\ Len(ledger) = i \div API_BATCH_SIZE
        /\ \A k \in 1..Len(ledger) : ledger[k] = KthBatch(k)

\* the second batch failed for good after the first was synced
C8_Witness ==
    /\ error = "SyncFailure"
    /\ i = API_BATCH_SIZE
    /\ Len(ledger) = 1
    /\ ledger[1] # << >>

(***************************************************************************)
(* C9: sync batches go out in order and one at a time: at most one is in   *)
(* flight, every batch before a submitted one has already been synced,     *)
(* and the ledger holds the batches in the order of approved_records.      *)
(***************************************************************************)
C9_Sequential ==
    /\ Cardinality(in_flight) <= 1
    /\ \A k \in 1..Len(submitted) :
          /\ Len(ledger) >= submitted[k].offset \div API_BATCH_SIZE
          /\ \A j \in 1..k : submitted[j].offset <= submitted[k].offset
    /\ \A o \in in_flight : o = i /\ Len(ledger) = o \div API_BATCH_SIZE
    /\ \A k \in 1..Len(ledger) : ledger[k] = KthBatch(k)

\* the second batch is in flight after the first was synced
C9_Witness ==
    /\ in_flight = {API_BATCH_SIZE}
    /\ Len(ledger) = 1
    /\ attempt > 1

(***************************************************************************)
(* C10: every rate-limit wait lasts 10 s and follows a synced batch that   *)
(* is not the last: before batch k+1 is dispatched k waits were made, and  *)
(* a finished sync of b batches made b - 1 waits (none for b = 0).         *)
(***************************************************************************)
C10_RateLimitWaits ==
    /\ \A k \in 1..Len(waits) : waits[k] = 10
    /\ pc \in {"sync", "in_step", "backoff"} => Len(waits) = Len(ledger)
    /\ pc = "rate_wait" =>
          Len(waits) = Len(ledger) - 1 /\ Len(ledger) < NumBatches
    /\ SyncDone =>
          /\ Len(ledger) = NumBatches
          /\ Len(waits) = IF NumBatches >= 1 THEN NumBatches - 1 ELSE 0

\* two batches synced with one wait between them
C10_Witness ==
    /\ pc = "completed"
    /\ Len(ledger) = 2
    /\ Len(ledger[2]) < API_BATCH_SIZE
    /\ waits = <<10>>

(***************************************************************************)
(* Vocabulary of the stage order.                                          *)
(***************************************************************************)
\* where lambda_handler stands, or stood when the run failed
Position == IF pc = "failed" THEN failed_at ELSE pc

\* 1 Ingestor, 2 Enricher, 3 ApprovalGate, 4 LedgerSync, 5 ReportGenerator
Stage ==
    CASE Position = "fetch" -> 1
      [] Position = "map" -> 2
      [] Position \in {"extract", "gate", "send", "await"} -> 3
      [] Position \in {"sync", "in_step", "backoff", "rate_wait"} -> 4
      [] OTHER -> 5

(***************************************************************************)
(* C11: the run passes the stages Ingestor, Enricher, ApprovalGate,        *)
(* LedgerSync, ReportGenerator in this order and never goes back; a sync   *)
(* batch is submitted only once the gate is behind the run, resolved by a  *)
(* decision or the deadline, or skipped for want of high-value ids; the    *)
(* report stage starts only when every sync batch has succeeded.           *)
(***************************************************************************)
C11_StageOrder ==
    /\ [][Stage' >= Stage]_vars
    /\ [](Stage >= 2 => records = source.rows)
    /\ [](Stage >= 3 => Len(processed) = Len(records))
    /\ [](callback # "none" => Stage >= 3)
    /\ []((submitted # << >> \/ in_flight # {}) =>
             /\ Stage >= 4
             /\ callback # "pending"
             /\ IF high_value_ids = << >>
                THEN callback = "none"
                ELSE callback \in {"succeeded", "timed_out"}
                     /\ approval_requests = 1)
    /\ [](Stage = 5 =>
             /\ in_flight = {}
             /\ Len(ledger) = NumBatches
             /\ \A k \in 1..Len(ledger) : ledger[k] = KthBatch(k))
    /\ []((s3_objects # {} \/ report # NoReport) => Stage = 5)

\* the report is being written after a decision was received and two
\* batches were synced
C11_Witness ==
    /\ pc = "put_summary"
    /\ callback = "succeeded"
    /\ Len(records) = MaxRecords
    /\ Len(ledger) = 2

(***************************************************************************)
(* Vocabulary of the Enricher properties.                                  *)
(***************************************************************************)
BatchesIn(status) == {b \in DOMAIN batch_status : batch_status[b] = status}

AllAdmitted == \A b \in DOMAIN batch_status : executions[b] > 0

\* a batch leaves the queue in this step
Admitted(b) ==
    /\ b \in DOMAIN batch_status' /\ batch_status[b] = "queued"
    /\ batch_status'[b] # "queued"

C14_BatchesAndMerge ==
    LET batches == Batches(records)
        n == Len(records)
        nb == Len(batches)
    IN /\ nb = (n + BATCH_SIZE - 1) \div BATCH_SIZE
       /\ DOMAIN batch_status = 1..nb
       /\ \A b \in 1..nb :
             /\ Len(batches[b]) = IF b < nb THEN BATCH_SIZE
                                  ELSE n - (nb - 1) * BATCH_SIZE
             /\ Len(batches[b]) \in 1..BATCH_SIZE
             /\ \A k \in 1..Len(batches[b]) :
                   batches[b][k] = records[(b - 1) * BATCH_SIZE + k]
       /\ pc = "extract" =>
             /\ Len(processed) = n
             /\ \A j \in 1..n :
                   Cardinality({k \in 1..Len(processed) :
                                   processed[k].id = records[j].id}) = 1

\* an input that splits into full batches and a smaller last one, merged
C14_Witness ==
    /\ pc = "extract"
    /\ Len(records) = MaxEnrichRecords
    /\ Len(Batches(records)) >= 2
    /\ Len(Batches(records)[1]) = BATCH_SIZE
    /\ Len(Batches(records)[Len(Batches(records))]) < BATCH_SIZE
    /\ Len(processed) = MaxEnrichRecords

\* the same records, each as many times
SameMultiset(s, t) ==
    /\ Len(s) = Len(t)
    /\ \A r \in SetOf(s) \cup SetOf(t) : Count(s, r) = Count(t, r)

\* the map has completed and merged its results
Merged == Stage >= 3

(***************************************************************************)
(* C15: whatever the order in which the batches completed and however      *)
(* often a batch was executed, the merged output is, as a multiset, the    *)
(* enrichment of the input records, each once; and so are the partitions:  *)
(* approved_records and rejected_records are those of that output for the  *)
(* approved and rejected ids.                                              *)
(***************************************************************************)
C15_MergeIsOrderInsensitive ==
    LET enriched == [k \in 1..Len(records) |-> process_record(records[k])]
    IN /\ Merged => SameMultiset(processed, enriched)
       /\ Merged /\ GateResolved =>
             SameMultiset(approved_records,
                          ApprovedRecords(enriched, approved_ids))
       /\ Merged /\ Reported =>
             SameMultiset(rejected_records,
                          RejectedRecords(enriched, rejected_ids))

\* the second batch completed before the first, which was executed twice
C15_Witness ==
    /\ pc = "extract"
    /\ Len(completion_order) >= 2
    /\ completion_order[1] > completion_order[2]
    /\ executions[1] = 2
    /\ Len(processed) = Len(records)

(***************************************************************************)
(* C16: when generate_report has returned, the summary location is         *)
(* returned and the summary object written; the rejected-detail location   *)
(* is null exactly when rejected_records is empty, and the rejected-detail *)
(* object has been written exactly when rejected_records is not empty.     *)
(* It is never written for an empty rejected_records.                      *)
(***************************************************************************)
C16_RejectedDetail ==
    /\ report # NoReport =>
          /\ report.summary_url = "summary"
          /\ "summary" \in s3_objects
          /\ report.rejected_url = "null" <=> rejected_records = << >>
          /\ report.rejected_url = "rejected" <=> rejected_records # << >>
          /\ "rejected" \in s3_objects <=> rejected_records # << >>
    /\ "rejected" \in s3_objects => rejected_records # << >>
    /\ pc = "completed" => report # NoReport /\ result.report_url = "summary"

\* every flagged id was approved: the report of a run that had an approval
\* gate returns no rejected-detail location and wrote the summary alone
C16_Witness ==
    /\ pc = "completed"
    /\ high_value_ids # << >>
    /\ rejected_records = << >>
    /\ report.rejected_url = "null"
    /\ s3_objects = {"summary"}

(***************************************************************************)
(* C17 as stated: the partial write is "summary written, rejection-detail  *)
(* write failed": when the write of the rejection detail has failed, the   *)
(* summary object is in place.                                             *)
(***************************************************************************)
C17_SummaryThenDetailFails ==
    (error = "ReportWriteFailure" /\ failed_at = "put_rejected") =>
        "summary" \in s3_objects

(***************************************************************************)
(* C17, amended: generate_report writes the rejection detail first.  When  *)
(* its write fails nothing has been written; when the write of the summary *)
(* fails, the rejection detail of a non-empty rejected_records is in place *)
(* and stays: the run has failed, nothing is returned, nothing is undone.  *)
(***************************************************************************)
C17_NotTransactional ==
    /\ error = "ReportWriteFailure" =>
          /\ pc = "failed"
          /\ failed_at \in {"put_rejected", "put_summary"}
          /\ failed_at = "put_rejected" =>
                rejected_records # << >> /\ s3_objects = {}
          /\ failed_at = "put_summary" =>
                s3_objects = IF rejected_records # << >>
                             THEN {"rejected"} ELSE {}
          /\ report = NoReport
          /\ result = NoResult
          /\ ~ENABLED Next
    /\ pc = "put_summary" /\ rejected_records # << >> =>
          s3_objects = {"rejected"}

\* the rejection detail is written, the write of the summary failed
C17_Witness ==
    /\ error = "ReportWriteFailure"
    /\ failed_at = "put_summary"
    /\ rejected_records # << >>
    /\ s3_objects = {"rejected"}

\* the fields of a row of the export
BaseFields == {"id", "customer_name", "product", "amount", "quantity",
               "region", "category", "timestamp"}

(***************************************************************************)
(* C18: for a record of amount a > 0, process_record yields                *)
(* tax = floor(a / 10) and total = floor(11 a / 10), the values of         *)
(* floor(a * 0.1) and floor(a * 1.1) in exact arithmetic, although it      *)
(* computes them in doubles; the eight base fields are those of the        *)
(* input, processed is true and there is no other field; applied to its    *)
(* own output it yields the same record.                                   *)
(***************************************************************************)
C18_ProcessRecord ==
    \A b \in BatchesIn("succeeded") :
       \A k \in 1..Len(batch_results[b]) :
          LET in == Batches(records)[b][k]
              out == batch_results[b][k]
          IN /\ in.amount > 0
             /\ out.tax = in.amount \div 10
             /\ out.total = (11 * in.amount) \div 10
             /\ \A f \in BaseFields : out[f] = in[f]
             /\ out.processed = TRUE
             /\ DOMAIN out = BaseFields \cup {"tax", "total", "processed"}
             /\ process_record(out) = out

\* amount 10, whose products 10 * 0.1 and 10 * 1.1 are not exact in doubles
C18_Witness ==
    /\ BatchesIn("succeeded") = {1}
    /\ records[1].amount = 10
    /\ batch_results[1][1].tax = 1
    /\ batch_results[1][1].total = 11

(***************************************************************************)
(* C19: in a run that returned status 'completed' the ledger holds the     *)
(* consecutive slices of approved_records, each of API_BATCH_SIZE records  *)
(* but the last, none empty, none longer; put end to end they are          *)
(* approved_records, so that each approved record of an export with        *)
(* unique ids is in exactly one synced batch; and the approved_records     *)
(* count of the result is the sum of the sizes of the synced batches.      *)
(***************************************************************************)
C19_EachApprovedRecordSyncedOnce ==
    pc = "completed" =>
        /\ result.status = "completed"
        /\ Len(ledger) = NumBatches
        /\ \A k \in 1..Len(ledger) :
              /\ ledger[k] = KthBatch(k)
              /\ Len(ledger[k]) \in 1..API_BATCH_SIZE
              /\ k < Len(ledger) => Len(ledger[k]) = API_BATCH_SIZE
        /\ Extend(ledger, Len(ledger)) = approved_records
        /\ UniqueIds(records) =>
              \A r \in SetOf(approved_records) :
                 Cardinality({k \in 1..Len(ledger) : r \in SetOf(ledger[k])}) = 1
        /\ result.approved_records
              = Sum([k \in 1..Len(ledger) |-> Len(ledger[k])], Len(ledger))
        /\ \A k \in 1..Len(submitted) :
              submitted[k].batch = KthBatch((submitted[k].offset \div API_BATCH_SIZE) + 1)

\* a completed run whose approved records went out in two batches, the
\* first of them after a failed attempt
C19_Witness ==
    /\ pc = "completed"
    /\ UniqueIds(records)
    /\ Len(ledger) = 2
    /\ Len(submitted) > 2
    /\ result.approved_records = MaxRecords

\* the run has ended
Terminated == pc \in {"completed", "failed"}

(***************************************************************************)
(* C20: when the runtime keeps taking the steps it can take and time       *)
(* passes, every run ends, completed or failed: the wait for the decision  *)
(* ends with the callback decided or timed out, a sync step ends by        *)
(* success or by the failure of the run, and the run leaves the map, the   *)
(* approval wait and every rate-limit wait.                                *)
(***************************************************************************)
C20_Terminates ==
    /\ <>Terminated
    /\ (pc = "await") ~> (callback \in {"succeeded", "timed_out"})
    /\ (pc = "await") ~> (pc # "await")
    /\ (pc \in {"in_step", "backoff"}) ~>
          (in_flight = {} /\ pc \notin {"in_step", "backoff"})
    /\ (pc = "map") ~> (pc # "map")
    /\ (pc = "rate_wait") ~> (pc = "sync")
    /\ [](Terminated => ~ENABLED Next)

\* a run that waited for the decision until the deadline, synced its
\* batch at the fifth attempt, and completed
C20_Witness ==
    /\ pc = "completed"
    /\ callback = "timed_out"
    /\ Len(ledger) = 1
    /\ Len(submitted) = 5

====
